---- MODULE Spec2Model ----
(***************************************************************************)
(* Model of the note-enrichment tool: enrich_note.py (orchestrator),       *)
(* get_yt_subtitle.py (subtitle fetcher), open_x.py (post scraper) and      *)
(* firefox_cookies.py (cookie jar bridge).                                  *)
(*                                                                         *)
(* Text is modelled as a sequence of one-character strings, so that the    *)
(* normalisation steps act on characters as the Python code does.          *)
(***************************************************************************)
EXTENDS Integers, Sequences, FiniteSets, TLC

VARIABLES
    \* ---- get_yt_subtitle._strip_subtitle_markup (loop state) ----
    raw,              \* the raw cue payload handed to _strip_subtitle_markup
    strip_pc,         \* "idle" | "loop" | "returned"
    strip_todo,       \* physical lines of raw.splitlines() not yet visited
    lines,            \* the local list `lines` (kept lines)
    last_text_line,   \* the local `last_text_line` (None is NoneVal)
    strip_seen,       \* normalised non-empty text of every visited line, in order
    strip_result,     \* the returned string
    \* ---- get_yt_subtitle.fetch_subtitle_text (one call, step by step) ----
    info,             \* what the metadata backend and the network answer for this call
    fetch_pc,         \* "idle" | "extract" | "select" | "check" | "download" | "returned" | "raised"
    fetch_field,      \* position of the `for field in (...)` loop, 1..2
    subtitle_url,     \* the local `subtitle_url` (None is NoneVal)
    selected_field,   \* the field whose list gave subtitle_url (None is NoneVal)
    fetch_result,     \* what the call returned or raised
    \* ---- open_x.scrape_post (one call, step by step) ----
    page,             \* how the page behaves during the call
    scrape_pc,        \* "idle" | "wait" | "query" | "inner" | "returned" | "raised"
    scrape_result,    \* what the call returned or raised
    \* ---- firefox_cookies.py and open_x.extract_x_cookies (one call, step by step) ----
    tmpfiles,         \* the temporary files that exist on disk
    tmp_created,      \* the temporary files the call has created so far
    xc_pc,            \* extract_x_cookies: "idle" | "copy" | "query" | "rows" | "finally" | "returned" | "raised"
    ff_pc,            \* firefox_cookies: "idle" | "copy_db" | "query" | "rows" | "finally" | "loaded" |
                      \*   "export" | "yielded" | "jar_finally" | "closed" | "returned" | "raised"
    ff_caller,        \* "none" | "direct" (load_firefox_cookies called alone) | "jar" (firefox_cookie_jar)
    cursor,           \* rows of the query not yet visited
    cookies,          \* the local list `cookies`
    exc,              \* the exception in flight ("" when none)
    netscape,         \* lines written to the exported cookie file
    \* ---- enrich_note.main (one run) ----
    yt_template,      \* args.yt_template
    pc,               \* where main is; "done", "exited" and "aborted" end the run
    exit_code,        \* the process exit status (-1 while running)
    fault,            \* why the run exited or aborted ("" when it has not)
    yt_pairs,         \* the local `yt_pairs`
    x_pairs,          \* the local `x_pairs`
    yt_i,             \* position of the loop over yt_pairs
    x_i,              \* position of the loop over x_pairs
    report_youtube,   \* report["youtube"]
    report_x,         \* report["x"]
    title,            \* the local `title`
    text,             \* the local `text`
    files,            \* the output directory: path -> content
    writes,           \* every write_text so far, in order: [path, content]
    playwright,       \* the sync_playwright context: "none" | "running" | "stopped"
    browser,          \* the launched browser: "none" | "open" | "closed"
    navigations,      \* urls handed to scrape_post so far, in order
    emitted,          \* whether the final report step has run
    yt_snapshot       \* report["youtube"] and the files as the video loop left them

stripVars == <<raw, strip_pc, strip_todo, lines, last_text_line, strip_seen, strip_result>>

fetchVars == <<info, fetch_pc, fetch_field, subtitle_url, selected_field, fetch_result>>

scrapeVars == <<page, scrape_pc, scrape_result>>

cookieVars == <<tmpfiles, tmp_created, xc_pc, ff_pc, ff_caller, cursor, cookies, exc, netscape>>

mainVars ==
    <<yt_template, pc, exit_code, fault, yt_pairs, x_pairs, yt_i, x_i, report_youtube,
      report_x, title, text, files, writes, playwright, browser, navigations, emitted,
      yt_snapshot>>

vars == <<stripVars, fetchVars, scrapeVars, cookieVars, mainVars>>

\* What the actions of one part leave unchanged.
notStrip == <<fetchVars, scrapeVars, cookieVars, mainVars>>

notFetch == <<stripVars, scrapeVars, cookieVars, mainVars>>

notCookies == <<stripVars, fetchVars, scrapeVars, mainVars>>

notMain == <<stripVars, fetchVars, scrapeVars, cookieVars>>

notScrape == <<stripVars, fetchVars, cookieVars, mainVars>>

\* Python's None where a line of text is expected.
NoneVal == <<"<None>">>

\* Python's None where a url or a field name is expected.
NoUrl == "<None>"

NoField == "<None>"

\* No call of fetch_subtitle_text is in progress.
NoInfo ==
    [extract |-> "ok", title |-> <<>>,
     subtitles |-> [is_dict |-> FALSE, has_list |-> FALSE, lang_tracks |-> <<>>],
     automatic_captions |-> [is_dict |-> FALSE, has_list |-> FALSE, lang_tracks |-> <<>>],
     http |-> "ok", payload |-> <<>>]

\* No call of scrape_post is in progress.
ScrapeIdle ==
    /\ page = [goto |-> "ok", wait |-> "ok", elements |-> <<>>, inner_text |-> "ok"]
    /\ scrape_pc = "idle"
    /\ scrape_result = [raised |-> FALSE, text |-> <<>>]

\* An empty output directory.
NoFiles == [p \in {} |-> <<>>]

\* No run of main is in progress.
MainIdle ==
    /\ yt_template = <<>>
    /\ pc = "idle"
    /\ exit_code = -1
    /\ fault = ""
    /\ yt_pairs = <<>>
    /\ x_pairs = <<>>
    /\ yt_i = 1
    /\ x_i = 1
    /\ report_youtube = <<>>
    /\ report_x = <<>>
    /\ title = <<>>
    /\ text = <<>>
    /\ files = NoFiles
    /\ writes = <<>>
    /\ playwright = "none"
    /\ browser = "none"
    /\ navigations = <<>>
    /\ emitted = FALSE
    /\ yt_snapshot = [report |-> <<>>, files |-> NoFiles]

\* No call into the cookie jar bridge is in progress.
CookiesIdle ==
    /\ tmpfiles = {}
    /\ tmp_created = {}
    /\ xc_pc = "idle"
    /\ ff_pc = "idle"
    /\ ff_caller = "none"
    /\ cursor = <<>>
    /\ cookies = <<>>
    /\ exc = ""
    /\ netscape = <<>>

NoResult == [raised |-> FALSE, error |-> "<no call>", title |-> <<>>, text |-> <<>>]

\* The variables of a part of the program that a specification does not run.
StripIdle ==
    /\ strip_pc = "idle"
    /\ strip_todo = <<>>
    /\ lines = <<>>
    /\ last_text_line = NoneVal
    /\ strip_seen = <<>>
    /\ strip_result = <<>>

FetchIdle ==
    /\ info = NoInfo
    /\ fetch_pc = "idle"
    /\ fetch_field = 1
    /\ subtitle_url = NoUrl
    /\ selected_field = NoField
    /\ fetch_result = NoResult

-----------------------------------------------------------------------------
(* Character-level helpers standing for Python's str methods and re.sub.    *)

WS == {" ", "\t"}

Digits == {"0", "1", "2", "3", "4", "5", "6", "7", "8", "9"}

UpperAlpha == <<"A","B","C","D","E","F","G","H","I","J","K","L","M",
                "N","O","P","Q","R","S","T","U","V","W","X","Y","Z">>

LowerAlpha == <<"a","b","c","d","e","f","g","h","i","j","k","l","m",
                "n","o","p","q","r","s","t","u","v","w","x","y","z">>

LowerChar(c) ==
    IF \E k \in 1..26 : UpperAlpha[k] = c
    THEN LowerAlpha[CHOOSE k \in 1..26 : UpperAlpha[k] = c]
    ELSE c

\* str.lower()
Lower(s) == [i \in 1..Len(s) |-> LowerChar(s[i])]

\* str.startswith(p)
StartsWith(s, p) == Len(p) <= Len(s) /\ SubSeq(s, 1, Len(p)) = p

\* `sub in s`
Contains(s, sub) ==
    \E i \in 1..(Len(s) - Len(sub) + 1) : SubSeq(s, i, i + Len(sub) - 1) = sub

\* str.isdigit()
IsDigit(s) == Len(s) > 0 /\ \A i \in 1..Len(s) : s[i] \in Digits

RECURSIVE LStrip(_)
LStrip(s) == IF s # <<>> /\ Head(s) \in WS THEN LStrip(Tail(s)) ELSE s

RECURSIVE RStrip(_)
RStrip(s) ==
    IF s # <<>> /\ s[Len(s)] \in WS THEN RStrip(SubSeq(s, 1, Len(s) - 1)) ELSE s

\* str.strip()
Strip(s) == RStrip(LStrip(s))

\* str.splitlines(), for payloads whose only line break is "\n"
RECURSIVE SplitLines(_)
SplitLines(s) ==
    IF s = <<>> THEN <<>>
    ELSE IF \E i \in 1..Len(s) : s[i] = "\n"
    THEN LET i == CHOOSE k \in 1..Len(s) :
                      s[k] = "\n" /\ \A m \in 1..(k - 1) : s[m] # "\n"
         IN  <<SubSeq(s, 1, i - 1)>> \o SplitLines(SubSeq(s, i + 1, Len(s)))
    ELSE <<s>>

\* str.split(): the maximal runs of non-whitespace characters
RECURSIVE SplitWS(_)
SplitWS(s) ==
    LET t == LStrip(s)
    IN  IF t = <<>> THEN <<>>
        ELSE IF \E i \in 1..Len(t) : t[i] \in WS
        THEN LET i == CHOOSE k \in 1..Len(t) :
                          t[k] \in WS /\ \A m \in 1..(k - 1) : t[m] \notin WS
             IN  <<SubSeq(t, 1, i - 1)>> \o SplitWS(SubSeq(t, i + 1, Len(t)))
        ELSE <<t>>

\* " ".join(parts)
RECURSIVE JoinSpace(_)
JoinSpace(parts) ==
    IF parts = <<>> THEN <<>>
    ELSE IF Len(parts) = 1 THEN parts[1]
    ELSE parts[1] \o <<" ">> \o JoinSpace(Tail(parts))

\* "\n".join(parts)
RECURSIVE JoinNewline(_)
JoinNewline(parts) ==
    IF parts = <<>> THEN <<>>
    ELSE IF Len(parts) = 1 THEN parts[1]
    ELSE parts[1] \o <<"\n">> \o JoinNewline(Tail(parts))

\* index of the first occurrence of c in s at or after position from, 0 if none
FirstAt(s, c, from) ==
    IF \E k \in from..Len(s) : s[k] = c
    THEN CHOOSE k \in from..Len(s) : s[k] = c /\ \A m \in from..(k - 1) : s[m] # c
    ELSE 0

\* re.sub(r"<[^>]+>", "", s)
RECURSIVE RemoveTags(_)
RemoveTags(s) ==
    IF s = <<>> THEN <<>>
    ELSE LET j == IF Head(s) = "<" THEN FirstAt(s, ">", 2) ELSE 0
         IN  IF j >= 3
             THEN RemoveTags(SubSeq(s, j + 1, Len(s)))
             ELSE <<Head(s)>> \o RemoveTags(Tail(s))

\* re.sub(r"\[[^\]]*\]", "", s)
RECURSIVE RemoveBrackets(_)
RemoveBrackets(s) ==
    IF s = <<>> THEN <<>>
    ELSE LET j == IF Head(s) = "[" THEN FirstAt(s, "]", 2) ELSE 0
         IN  IF j >= 2
             THEN RemoveBrackets(SubSeq(s, j + 1, Len(s)))
             ELSE <<Head(s)>> \o RemoveBrackets(Tail(s))

\* html.unescape(s), for the entities &gt; &lt; &amp;
RECURSIVE Unescape(_)
Unescape(s) ==
    IF s = <<>> THEN <<>>
    ELSE IF StartsWith(s, <<"&","g","t",";">>)
    THEN <<">">> \o Unescape(SubSeq(s, 5, Len(s)))
    ELSE IF StartsWith(s, <<"&","l","t",";">>)
    THEN <<"<">> \o Unescape(SubSeq(s, 5, Len(s)))
    ELSE IF StartsWith(s, <<"&","a","m","p",";">>)
    THEN <<"&">> \o Unescape(SubSeq(s, 6, Len(s)))
    ELSE <<Head(s)>> \o Unescape(Tail(s))

RECURSIVE DropLeading(_, _)
DropLeading(s, chars) ==
    IF s # <<>> /\ Head(s) \in chars THEN DropLeading(Tail(s), chars) ELSE s

\* re.sub(r"^>+\s*", "", s)
StripArrows(s) ==
    IF s # <<>> /\ Head(s) = ">" THEN DropLeading(DropLeading(s, {">"}), WS) ELSE s

\* _TIMECODE_RE: \d{2}:\d{2}:\d{2}\.\d{3}
IsClock(s) ==
    /\ Len(s) = 12
    /\ \A i \in {1, 2, 4, 5, 7, 8, 10, 11, 12} : s[i] \in Digits
    /\ s[3] = ":" /\ s[6] = ":" /\ s[9] = "."

\* _TIMECODE_RE.fullmatch(s): clock \s+ --> \s+ clock
TimecodeFullmatch(s) ==
    /\ Len(s) >= 29
    /\ IsClock(SubSeq(s, 1, 12))
    /\ IsClock(SubSeq(s, Len(s) - 11, Len(s)))
    /\ LET mid == SubSeq(s, 13, Len(s) - 12)
           a   == DropLeading(mid, WS)
       IN  /\ a # mid
           /\ StartsWith(a, <<"-","-",">">>)
           /\ Len(a) > 3
           /\ DropLeading(SubSeq(a, 4, Len(a)), WS) = <<>>

-----------------------------------------------------------------------------
(* get_yt_subtitle._strip_subtitle_markup                                    *)

CuePrefixes ==
    { <<"p","o","s","i","t","i","o","n",":">>, <<"a","l","i","g","n",":">>,
      <<"l","i","n","e",":">>, <<"s","i","z","e",":">>,
      <<"r","e","g","i","o","n",":">> }

\* The `continue` tests of the loop body (lines 30-63), on the stripped line.
IsSkippedLine(stripped) ==
    \/ stripped = <<>>
    \/ StartsWith(stripped, <<"W","E","B","V","T","T">>)
    \/ StartsWith(stripped, <<"N","O","T","E">>)
    \/ Contains(stripped, <<"X","-","T","I","M","E","S","T","A","M","P","-","M","A","P">>)
    \/ StartsWith(Lower(stripped), <<"k","i","n","d",":">>)
    \/ StartsWith(Lower(stripped), <<"l","a","n","g","u","a","g","e",":">>)
    \/ IsDigit(stripped)
    \/ Contains(stripped, <<"-","-",">">>)
    \/ TimecodeFullmatch(stripped)
    \/ \E p \in CuePrefixes : StartsWith(Lower(stripped), p)

\* Lines 66-78: tags, stage directions, entities, arrows, whitespace.
NormalizeLine(stripped) ==
    JoinSpace(SplitWS(StripArrows(Unescape(RemoveBrackets(RemoveTags(stripped))))))

\* text_only of one physical line; <<>> when the line is skipped or cleans to nothing.
TextOnly(line) ==
    LET stripped == Strip(line)
    IN  IF IsSkippedLine(stripped) THEN <<>> ELSE NormalizeLine(stripped)

\* A variant of the keep test without the comparison to last_text_line.
KeepLine_NoDedup(text_only, last) == text_only # <<>>

\* Lines 80-85: keep text_only when non-empty and different from last_text_line.
KeepLine(text_only, last) == text_only # <<>> /\ text_only # last

\* One iteration of the loop on the state [lines, last_text_line].
StripLoopBody(st, line) ==
    LET text_only == TextOnly(line)
    IN  IF KeepLine(text_only, st.last_text_line)
        THEN [lines |-> Append(st.lines, text_only), last_text_line |-> text_only]
        ELSE st

RECURSIVE StripLoop(_, _)
StripLoop(st, todo) ==
    IF todo = <<>> THEN st ELSE StripLoop(StripLoopBody(st, Head(todo)), Tail(todo))

\* Lines 87-91.
StripReturn(kept) == IF kept = <<>> THEN <<>> ELSE Strip(JoinSpace(kept))

_strip_subtitle_markup(r) ==
    StripReturn(StripLoop([lines |-> <<>>, last_text_line |-> NoneVal], SplitLines(r)).lines)

-----------------------------------------------------------------------------
(* Bounds and inputs of the normaliser's specification.                      *)

MaxLines == 3

SampleLines ==
    { <<"H","i">>,
      <<"<","i",">","H","i","<","/","i",">">>,
      <<"&","g","t",";","&","g","t",";"," ","H","i">>,
      <<" ","Y","o"," "," ","[","x","]">>,
      <<"[","x","]">>,
      <<"1","2">>,
      <<"0","1"," ","-","-",">"," ","0","2">>,
      <<"K","i","n","d",":","c">> }

RECURSIVE SeqsUpTo(_, _)
SeqsUpTo(S, n) ==
    IF n = 0 THEN {<<>>}
    ELSE LET shorter == SeqsUpTo(S, n - 1)
         IN  shorter \cup {Append(q, e) : q \in {r \in shorter : Len(r) = n - 1}, e \in S}

InitStrip ==
    /\ raw \in {JoinNewline(ls) : ls \in SeqsUpTo(SampleLines, MaxLines)}
    /\ StripIdle
    /\ FetchIdle
    /\ CookiesIdle
    /\ ScrapeIdle
    /\ MainIdle

\* Entry: lines 27-29.
StripEnter ==
    /\ strip_pc = "idle"
    /\ strip_pc' = "loop"
    /\ strip_todo' = SplitLines(raw)
    /\ lines' = <<>>
    /\ last_text_line' = NoneVal
    /\ UNCHANGED <<raw, strip_seen, strip_result, notStrip>>

\* One iteration of `for line in raw.splitlines()`.
StripIterate ==
    /\ strip_pc = "loop"
    /\ strip_todo # <<>>
    /\ LET st == StripLoopBody([lines |-> lines, last_text_line |-> last_text_line],
                               Head(strip_todo))
           t  == TextOnly(Head(strip_todo))
       IN  /\ lines' = st.lines
           /\ last_text_line' = st.last_text_line
           /\ strip_seen' = IF t = <<>> THEN strip_seen ELSE Append(strip_seen, t)
    /\ strip_todo' = Tail(strip_todo)
    /\ UNCHANGED <<raw, strip_pc, strip_result, notStrip>>

\* Loop exhausted: lines 87-91.
StripFinish ==
    /\ strip_pc = "loop"
    /\ strip_todo = <<>>
    /\ strip_pc' = "returned"
    /\ strip_result' = StripReturn(lines)
    /\ UNCHANGED <<raw, strip_todo, lines, last_text_line, strip_seen, notStrip>>

NextStrip == StripEnter \/ StripIterate \/ StripFinish

SpecStrip == InitStrip /\ [][NextStrip]_vars

-----------------------------------------------------------------------------
(* get_yt_subtitle.fetch_subtitle_text                                       *)

Fields == <<"subtitles", "automatic_captions">>

\* One entry of a per-language track list: not a dict, a dict without "url",
\* or a dict whose "url" is the given string.
NotDictEntry == [kind |-> "notdict", url |-> ""]

NoUrlEntry == [kind |-> "nourl", url |-> ""]

UrlEntry(u) == [kind |-> "url", url |-> u]

\* The value of info.get(field): whether it is a dict, whether that dict holds a
\* list for the language, and the list.
NotADict == [is_dict |-> FALSE, has_list |-> FALSE, lang_tracks |-> <<>>]

NoListForLang == [is_dict |-> TRUE, has_list |-> FALSE, lang_tracks |-> <<>>]

TrackList(l) == [is_dict |-> TRUE, has_list |-> TRUE, lang_tracks |-> l]

\* Lines 117-121: the list the iteration goes on with; <<>> when the field is no
\* dict, holds no list for the language, or holds an empty one.
LangTracks(i, field) ==
    LET tracks == i[field]
    IN  IF tracks.is_dict /\ tracks.has_list THEN tracks.lang_tracks ELSE <<>>

\* A variant that picks the first entry of the list.
Candidate_First(lang_tracks) == lang_tracks[1]

\* `candidate = lang_tracks[-1]` (line 123)
Candidate(lang_tracks) == lang_tracks[Len(lang_tracks)]

\* One iteration of the loop body (lines 117-126): the url assigned to subtitle_url
\* (and then `break`), or NoUrl when the iteration assigns nothing.
FieldUrl(i, field) ==
    LET lang_tracks == LangTracks(i, field)
    IN  IF lang_tracks = <<>> THEN NoUrl
        ELSE IF Candidate(lang_tracks).kind = "url" THEN Candidate(lang_tracks).url
        ELSE NoUrl

\* The whole loop (lines 116-126): [url, field] of the first field that assigns.
SelectTrack(i) ==
    IF FieldUrl(i, Fields[1]) # NoUrl
    THEN [url |-> FieldUrl(i, Fields[1]), field |-> Fields[1]]
    ELSE IF FieldUrl(i, Fields[2]) # NoUrl
    THEN [url |-> FieldUrl(i, Fields[2]), field |-> Fields[2]]
    ELSE [url |-> NoUrl, field |-> NoField]

\* `if not subtitle_url` (line 128)
NoSubtitleUrl(u) == u = NoUrl \/ u = ""

ErrExtract == "extract_info failed"

ErrNoSubtitles == "No subtitles found for language 'en'"

ErrHttp == "subtitle download failed"

Raised(msg) == [raised |-> TRUE, error |-> msg, title |-> <<>>, text |-> <<>>]

Returned(ttl, txt) == [raised |-> FALSE, error |-> "", title |-> ttl, text |-> txt]

\* `title = str(info.get("title") or "").strip()` (line 111)
FetchTitle(i) == Strip(i.title)

\* Lines 131-134, given the selected url.
Download(i, url) ==
    IF i.http = "fail" THEN Raised(ErrHttp)
    ELSE Returned(FetchTitle(i), _strip_subtitle_markup(i.payload))

\* The whole call.
fetch_subtitle_text(i) ==
    IF i.extract = "raise" THEN Raised(ErrExtract)
    ELSE IF NoSubtitleUrl(SelectTrack(i).url) THEN Raised(ErrNoSubtitles)
    ELSE Download(i, SelectTrack(i).url)

MaxTracks == 2

ManualEntries == {NoUrlEntry, UrlEntry(""), UrlEntry("m1"), UrlEntry("m2")}

AutoEntries == {NotDictEntry, UrlEntry(""), UrlEntry("a1"), UrlEntry("a2")}

\* The values info.get(field) can have: a non-dict, a dict with no list for the
\* language, or a dict with a list of entries for it.
TrackFieldValues(entries) ==
    {NotADict, NoListForLang} \cup {TrackList(l) : l \in SeqsUpTo(entries, MaxTracks)}

SamplePayload == <<"H","i","\n","H","i","\n","[","x","]">>

InitFetch ==
    /\ info \in [extract : {"ok", "raise"}, title : {<<" ","T"," ">>},
                 subtitles : TrackFieldValues(ManualEntries),
                 automatic_captions : TrackFieldValues(AutoEntries),
                 http : {"ok", "fail"}, payload : {SamplePayload}]
    /\ fetch_pc = "idle"
    /\ fetch_field = 1
    /\ subtitle_url = NoUrl
    /\ selected_field = NoField
    /\ fetch_result = NoResult
    /\ raw = <<>>
    /\ StripIdle
    /\ CookiesIdle
    /\ ScrapeIdle
    /\ MainIdle

\* Lines 108-109: ydl.extract_info either answers or raises.
FetchExtract ==
    /\ fetch_pc = "idle"
    /\ IF info.extract = "ok"
       THEN fetch_pc' = "select" /\ fetch_result' = fetch_result
       ELSE fetch_pc' = "raised" /\ fetch_result' = Raised(ErrExtract)
    /\ UNCHANGED <<info, fetch_field, subtitle_url, selected_field, notFetch>>

\* One iteration of `for field in ("subtitles", "automatic_captions")`.
FetchSelectField ==
    /\ fetch_pc = "select"
    /\ fetch_field <= Len(Fields)
    /\ LET u == FieldUrl(info, Fields[fetch_field])
       IN  IF u # NoUrl
           THEN /\ subtitle_url' = u
                /\ selected_field' = Fields[fetch_field]
                /\ fetch_pc' = "check"
                /\ fetch_field' = fetch_field
           ELSE /\ fetch_field' = fetch_field + 1
                /\ fetch_pc' = IF fetch_field = Len(Fields) THEN "check" ELSE "select"
                /\ UNCHANGED <<subtitle_url, selected_field>>
    /\ UNCHANGED <<info, fetch_result, notFetch>>

\* Lines 128-129.
FetchCheck ==
    /\ fetch_pc = "check"
    /\ IF NoSubtitleUrl(subtitle_url)
       THEN fetch_pc' = "raised" /\ fetch_result' = Raised(ErrNoSubtitles)
       ELSE fetch_pc' = "download" /\ fetch_result' = fetch_result
    /\ UNCHANGED <<info, fetch_field, subtitle_url, selected_field, notFetch>>

\* Lines 131-134.
FetchDownload ==
    /\ fetch_pc = "download"
    /\ fetch_result' = Download(info, subtitle_url)
    /\ fetch_pc' = IF info.http = "fail" THEN "raised" ELSE "returned"
    /\ UNCHANGED <<info, fetch_field, subtitle_url, selected_field, notFetch>>

NextFetch == FetchExtract \/ FetchSelectField \/ FetchCheck \/ FetchDownload

SpecFetch == InitFetch /\ [][NextFetch]_vars


-----------------------------------------------------------------------------
(* enrich_note.py: URL extraction, output paths, file contents.              *)

\* One whitespace-separated word of the note: a word YT_URL_PATTERN matches
\* (with the id it captures), a word X_URL_PATTERN matches, or any other text.
YtWord(url, id) == [kind |-> "yt", url |-> url, id |-> id]

XWord(url, id) == [kind |-> "x", url |-> url, id |-> id]

TextWord(t) == [kind |-> "text", url |-> t, id |-> <<>>]

\* Projection of a match to the pair (m.group(0), id).
Pair(w) == [url |-> w.url, id |-> w.id]

RECURSIVE MatchesOf(_, _)
MatchesOf(content, kind) ==
    IF content = <<>> THEN <<>>
    ELSE IF Head(content).kind = kind
    THEN <<Pair(Head(content))>> \o MatchesOf(Tail(content), kind)
    ELSE MatchesOf(Tail(content), kind)

\* extract_urls: the matches of each pattern, in order of occurrence.
extract_urls(content) ==
    [yt_pairs |-> MatchesOf(content, "yt"), x_pairs |-> MatchesOf(content, "x")]

AlphaNum ==
    {UpperAlpha[k] : k \in 1..26} \cup {LowerAlpha[k] : k \in 1..26} \cup Digits

\* re.sub(r"[^a-zA-Z0-9]+", "-", s)
RECURSIVE HyphenateRuns(_)
HyphenateRuns(s) ==
    IF s = <<>> THEN <<>>
    ELSE IF Head(s) \in AlphaNum THEN <<Head(s)>> \o HyphenateRuns(Tail(s))
    ELSE <<"-">> \o HyphenateRuns(DropLeading(s, {c \in {s[i] : i \in 1..Len(s)} : c \notin AlphaNum}))

RECURSIVE DropTrailing(_, _)
DropTrailing(s, chars) ==
    IF s # <<>> /\ s[Len(s)] \in chars
    THEN DropTrailing(SubSeq(s, 1, Len(s) - 1), chars)
    ELSE s

\* slugify (lines 42-45)
slugify(value) ==
    LET slug == DropTrailing(DropLeading(HyphenateRuns(Lower(Strip(value))), {"-"}), {"-"})
    IN  IF slug = <<>> THEN <<"u","n","t","i","t","l","e","d">> ELSE slug

\* A filename template: literal text and {placeholders}.
Lit(t) == [kind |-> "lit", name |-> "", text |-> t]

Field(n) == [kind |-> "field", name |-> n, text |-> <<>>]

\* str.format_map(_TemplateDict(...)): a placeholder the context lacks gives "".
RECURSIVE format_map(_, _)
format_map(template, ctx) ==
    IF template = <<>> THEN <<>>
    ELSE LET part == Head(template)
             out  == IF part.kind = "lit" THEN part.text
                     ELSE IF part.name \in DOMAIN ctx THEN ctx[part.name]
                     ELSE <<>>
         IN  out \o format_map(Tail(template), ctx)

\* OutputConfig.youtube_path (lines 59-65); base_dir is left implicit.
youtube_path(yt_tpl, video_id, ttl) ==
    format_map(yt_tpl,
               [video_id |-> video_id, title |-> ttl,
                title_slug |-> IF ttl # <<>> THEN slugify(ttl) ELSE video_id])

\* OutputConfig.x_path (lines 67-69)
x_path(x_tpl, post_id) == format_map(x_tpl, [post_id |-> post_id])

RECURSIVE JoinBlankLine(_)
JoinBlankLine(parts) ==
    IF parts = <<>> THEN <<>>
    ELSE IF Len(parts) = 1 THEN parts[1]
    ELSE parts[1] \o <<"\n", "\n">> \o JoinBlankLine(Tail(parts))

\* str.strip() with line breaks counted as whitespace
StripAll(s) == DropTrailing(DropLeading(s, WS \cup {"\n"}), WS \cup {"\n"})

\* The text written for a video (lines 170-173).
YtContent(ttl, url, txt) ==
    LET heading == IF ttl # <<>> THEN <<"#", " ">> \o ttl ELSE <<>>
    IN  StripAll(JoinBlankLine(SelectSeq(<<heading, url, txt>>, LAMBDA x : x # <<>>)))
            \o <<"\n">>

\* The text written for a post (line 198).
XContent(url, txt) == url \o <<"\n", "\n">> \o txt

-----------------------------------------------------------------------------
(* open_x.scrape_post                                                        *)

NoTextFound == <<"(","n","o"," ","t","e","x","t"," ","f","o","u","n","d",")">>

TimedOut ==
    <<"(","t","i","m","e","d"," ","o","u","t"," ","o","r"," ","p","o","s","t"," ",
      "u","n","a","v","a","i","l","a","b","l","e",")">>

\* What the page does during one call: whether page.goto raises; whether
\* wait_for_selector returns, times out or raises otherwise; the rendered texts
\* of the elements query_selector_all finds; whether inner_text raises.
PageBehaviours ==
    [goto : {"ok", "raise"}, wait : {"ok", "timeout", "error"},
     elements : {<<>>, <<<<>>>>, <<<<"P","o","s","t">>>>,
                 <<<<"P","o","s","t">>, <<"R","e","p","l","y">>>>},
     inner_text : {"ok", "raise"}]

ScrapeRaised == [raised |-> TRUE, text |-> <<>>]

ScrapeReturned(t) == [raised |-> FALSE, text |-> t]

\* scrape_post (lines 68-75): page.goto is outside the try block.
scrape_post(pg) ==
    IF pg.goto = "raise" THEN ScrapeRaised
    ELSE IF pg.wait # "ok" THEN ScrapeReturned(TimedOut)
    ELSE IF pg.elements = <<>> THEN ScrapeReturned(NoTextFound)
    ELSE IF pg.inner_text = "raise" THEN ScrapeReturned(TimedOut)
    ELSE ScrapeReturned(pg.elements[1])


InitScrape ==
    /\ page \in PageBehaviours
    /\ scrape_pc = "idle"
    /\ scrape_result = [raised |-> FALSE, text |-> <<>>]
    /\ raw = <<>>
    /\ StripIdle
    /\ FetchIdle
    /\ CookiesIdle
    /\ MainIdle

\* Line 69: page.goto, outside the try block.
ScrapeGoto ==
    /\ scrape_pc = "idle"
    /\ IF page.goto = "raise"
       THEN scrape_pc' = "raised" /\ scrape_result' = ScrapeRaised
       ELSE scrape_pc' = "wait" /\ scrape_result' = scrape_result
    /\ UNCHANGED <<page, notScrape>>

\* Line 71: wait_for_selector with the 15 s timeout; lines 74-75 catch what it raises.
ScrapeWait ==
    /\ scrape_pc = "wait"
    /\ IF page.wait = "ok"
       THEN scrape_pc' = "query" /\ scrape_result' = scrape_result
       ELSE scrape_pc' = "returned" /\ scrape_result' = ScrapeReturned(TimedOut)
    /\ UNCHANGED <<page, notScrape>>

\* Lines 72-73: query_selector_all; no element gives the "no text found" sentinel.
ScrapeQuery ==
    /\ scrape_pc = "query"
    /\ IF page.elements = <<>>
       THEN scrape_pc' = "returned" /\ scrape_result' = ScrapeReturned(NoTextFound)
       ELSE scrape_pc' = "inner" /\ scrape_result' = scrape_result
    /\ UNCHANGED <<page, notScrape>>

\* Line 73: elements[0].inner_text(); lines 74-75 catch what it raises.
ScrapeInner ==
    /\ scrape_pc = "inner"
    /\ scrape_pc' = "returned"
    /\ scrape_result' = IF page.inner_text = "raise" THEN ScrapeReturned(TimedOut)
                        ELSE ScrapeReturned(page.elements[1])
    /\ UNCHANGED <<page, notScrape>>

NextScrape == ScrapeGoto \/ ScrapeWait \/ ScrapeQuery \/ ScrapeInner

SpecScrape == InitScrape /\ [][NextScrape]_vars

ScrapeOver == scrape_pc \in {"returned", "raised"}

\* C5: scrape_post never raises; a wait that times out, or a marker that
\* is absent, gives the "no text found" sentinel; any other fault, a failed
\* navigation included, gives the "timed out or post unavailable" sentinel;
\* otherwise the text of the first matching element is returned.
C5_Original ==
    ScrapeOver =>
        /\ ~scrape_result.raised
        /\ page.goto = "raise" => scrape_result.text = TimedOut
        /\ page.goto = "ok" /\ (page.wait = "timeout" \/ (page.wait = "ok" /\ page.elements = <<>>))
              => scrape_result.text = NoTextFound
        /\ page.goto = "ok" /\ page.wait = "error" => scrape_result.text = TimedOut
        /\ page.goto = "ok" /\ page.wait = "ok" /\ page.elements # <<>> =>
              scrape_result.text = IF page.inner_text = "raise" THEN TimedOut
                                   ELSE page.elements[1]

\* The steps of one call end as the operator scrape_post, which main uses, says.
ScrapeStepsAgree == ScrapeOver => scrape_result = scrape_post(page)


-----------------------------------------------------------------------------
(* firefox_cookies.py (cookie jar bridge) and open_x.extract_x_cookies       *)

\* str.endswith(p)
EndsWith(s, p) == Len(p) <= Len(s) /\ SubSeq(s, Len(s) - Len(p) + 1, Len(s)) = p

XHost == <<".","x",".","c","o","m">>

OtherHost == <<"e","x",".","o","r","g">>

\* A row of moz_cookies: host, expiry and the storage class of expiry (SQLite
\* columns are dynamically typed), isHttpOnly, sameSite.
Row(host, expiry, expiry_type, http_only, same_site) ==
    [host |-> host, expiry |-> expiry, expiry_type |-> expiry_type,
     is_http_only |-> http_only, same_site |-> same_site]

SampleRows ==
    { Row(XHost, 5000, "int", TRUE, 1),
      Row(OtherHost, 0, "int", FALSE, 7),
      Row(XHost, 0, "null", FALSE, 0),
      Row(XHost, 0, "text", FALSE, 2) }

MaxRows == 2

\* The WHERE clause of extract_x_cookies (lines 46-48).
XHostLike(host) ==
    \/ EndsWith(host, <<"x",".","c","o","m">>)
    \/ EndsWith(host, <<"t","w","i","t","t","e","r",".","c","o","m">>)

\* SAME_SITE_MAP.get(same_site, "None")
SameSite(n) == IF n = 1 THEN "Lax" ELSE IF n = 2 THEN "Strict" ELSE "None"

\* `expiry > 0` raises TypeError on None and on text (line 57).
XConvertRaises(row) == row.expiry_type # "int"

\* The SetCookieParam of a row (lines 52-61); expires is in whole seconds.
SetCookieParam(row) ==
    [domain |-> row.host,
     expires |-> IF row.expiry > 0 THEN row.expiry \div 1000 ELSE -1,
     httpOnly |-> row.is_http_only,
     sameSite |-> SameSite(row.same_site)]

\* host_predicate of the caller: a substring test on the raw host field.
HostNeedle == <<"x",".","c","o","m">>

host_predicate(host) == Contains(host, HostNeedle)

\* int(expiry or 0) raises ValueError on non-numeric text (line 80).
FfConvertRaises(row) == row.expiry_type = "text"

\* The FirefoxCookie of a row (lines 75-84).
FirefoxCookie(row) ==
    [host |-> row.host,
     expiry |-> IF row.expiry_type = "int" THEN row.expiry ELSE 0,
     is_http_only |-> row.is_http_only,
     same_site |-> row.same_site]

\* One line of the flat cookie file (lines 100-108).
NetscapeLine(cookie) ==
    [prefix |-> IF cookie.is_http_only THEN "#HttpOnly_" ELSE "",
     domain |-> cookie.host,
     include_subdomains |-> IF StartsWith(cookie.host, <<".">>) THEN "TRUE" ELSE "FALSE",
     expiry |-> IF cookie.expiry > 0 THEN cookie.expiry ELSE 0]

\* firefox_cookies.find_firefox_profile (lines 32-47): fs tells whether the explicit
\* path exists and what each glob pattern matches.
find_firefox_profile(explicit, fs) ==
    IF explicit # ""
    THEN IF fs.explicit_exists THEN [raised |-> FALSE, path |-> explicit]
         ELSE [raised |-> TRUE, path |-> ""]
    ELSE IF fs.release # <<>> THEN [raised |-> FALSE, path |-> fs.release[1]]
    ELSE IF fs.default # <<>> THEN [raised |-> FALSE, path |-> fs.default[1]]
    ELSE [raised |-> TRUE, path |-> ""]

\* open_x.find_firefox_profile (lines 27-34): exits the process when nothing matches.
open_x_find_firefox_profile(fs) ==
    IF fs.release # <<>> THEN [exits |-> FALSE, path |-> fs.release[1]]
    ELSE IF fs.default # <<>> THEN [exits |-> FALSE, path |-> fs.default[1]]
    ELSE [exits |-> TRUE, path |-> ""]

ProfileDirs ==
    [explicit_exists : BOOLEAN, release : {<<>>, <<"p.default-release">>},
     default : {<<>>, <<"q.default">>}]

InitCookies ==
    /\ CookiesIdle
    /\ raw = <<>>
    /\ StripIdle
    /\ FetchIdle
    /\ ScrapeIdle
    /\ MainIdle

\* extract_x_cookies, lines 39-41: mkstemp, close the descriptor.
XcEnter ==
    /\ xc_pc = "idle" /\ ff_pc = "idle"
    /\ tmpfiles' = tmpfiles \cup {"x_db"}
    /\ tmp_created' = tmp_created \cup {"x_db"}
    /\ xc_pc' = "copy"
    /\ UNCHANGED <<ff_pc, ff_caller, cursor, cookies, exc, netscape, notCookies>>

\* Line 43, inside the try: shutil.copy2 succeeds, finds no cookies.sqlite, or fails.
XcCopy ==
    /\ xc_pc = "copy"
    /\ \E store \in {"ok", "missing", "error"} :
          /\ exc' = IF store = "ok" THEN "" ELSE IF store = "missing"
                    THEN "FileNotFoundError" ELSE "OSError"
          /\ xc_pc' = IF store = "ok" THEN "query" ELSE "finally"
    /\ UNCHANGED <<tmpfiles, tmp_created, ff_pc, ff_caller, cursor, cookies, netscape, notCookies>>

\* Lines 44-50: connect and execute; the cursor yields the rows the WHERE clause keeps.
XcQuery ==
    /\ xc_pc = "query"
    /\ \/ \E rows \in SeqsUpTo(SampleRows, MaxRows) :
             /\ cursor' = SelectSeq(rows, LAMBDA r : XHostLike(r.host))
             /\ xc_pc' = "rows"
             /\ exc' = ""
       \/ /\ xc_pc' = "finally"
          /\ exc' = "DatabaseError"
          /\ cursor' = cursor
    /\ cookies' = <<>>
    /\ UNCHANGED <<tmpfiles, tmp_created, ff_pc, ff_caller, netscape, notCookies>>

\* Lines 51-61: one row of the cursor.
XcRow ==
    /\ xc_pc = "rows"
    /\ cursor # <<>>
    /\ IF XConvertRaises(Head(cursor))
       THEN /\ exc' = "TypeError"
            /\ xc_pc' = "finally"
            /\ UNCHANGED <<cursor, cookies>>
       ELSE /\ cookies' = Append(cookies, SetCookieParam(Head(cursor)))
            /\ cursor' = Tail(cursor)
            /\ UNCHANGED <<exc, xc_pc>>
    /\ UNCHANGED <<tmpfiles, tmp_created, ff_pc, ff_caller, netscape, notCookies>>

\* Line 62: conn.close() after the last row.
XcClose ==
    /\ xc_pc = "rows"
    /\ cursor = <<>>
    /\ xc_pc' = "finally"
    /\ UNCHANGED <<tmpfiles, tmp_created, ff_pc, ff_caller, cursor, cookies, exc, netscape, notCookies>>

\* Lines 63-65: the finally clause, then the return or the re-raise.
XcFinally ==
    /\ xc_pc = "finally"
    /\ tmpfiles' = tmpfiles \ {"x_db"}
    /\ xc_pc' = IF exc = "" THEN "returned" ELSE "raised"
    /\ UNCHANGED <<tmp_created, ff_pc, ff_caller, cursor, cookies, exc, netscape, notCookies>>


\* load_firefox_cookies called by itself (line 64 is its first statement).
FfCallLoad ==
    /\ xc_pc = "idle" /\ ff_pc = "idle"
    /\ ff_caller' = "direct"
    /\ ff_pc' = "copy_db"
    /\ UNCHANGED <<tmpfiles, tmp_created, xc_pc, cursor, cookies, exc, netscape, notCookies>>

\* firefox_cookie_jar entered by a with statement, line 116:
\* `profile = profile_path or find_firefox_profile()`.
FjEnter ==
    /\ xc_pc = "idle" /\ ff_pc = "idle"
    /\ ff_caller' = "jar"
    /\ \E profile_path \in {"", "given"}, fs \in ProfileDirs :
          IF profile_path = "" /\ find_firefox_profile("", fs).raised
          THEN ff_pc' = "raised" /\ exc' = "FileNotFoundError"
          ELSE ff_pc' = "copy_db" /\ exc' = ""
    /\ UNCHANGED <<tmpfiles, tmp_created, xc_pc, cursor, cookies, netscape, notCookies>>

\* _copy_cookie_db (lines 50-57), called at line 64 before the try block:
\* cookies.sqlite is absent, or mkstemp then copy2, which succeeds or raises.
FfCopyDb ==
    /\ ff_pc = "copy_db"
    /\ \E store \in {"missing", "ok", "copyfail"} :
          /\ tmpfiles' = IF store = "missing" THEN tmpfiles ELSE tmpfiles \cup {"ff_db"}
          /\ tmp_created' = IF store = "missing" THEN tmp_created
                            ELSE tmp_created \cup {"ff_db"}
          /\ exc' = IF store = "missing" THEN "FileNotFoundError"
                    ELSE IF store = "copyfail" THEN "OSError" ELSE ""
          /\ ff_pc' = IF store = "ok" THEN "query" ELSE "raised"
    /\ UNCHANGED <<xc_pc, ff_caller, cursor, cookies, netscape, notCookies>>

\* Lines 65-70: connect and execute, inside the try.
FfQuery ==
    /\ ff_pc = "query"
    /\ \/ \E rows \in SeqsUpTo(SampleRows, MaxRows) :
             /\ cursor' = rows
             /\ ff_pc' = "rows"
             /\ exc' = ""
       \/ /\ ff_pc' = "finally"
          /\ exc' = "DatabaseError"
          /\ cursor' = cursor
    /\ cookies' = <<>>
    /\ UNCHANGED <<tmpfiles, tmp_created, xc_pc, ff_caller, netscape, notCookies>>

\* Lines 71-85: one row of the cursor.
FfRow ==
    /\ ff_pc = "rows"
    /\ cursor # <<>>
    /\ IF ~host_predicate(Head(cursor).host)
       THEN /\ cursor' = Tail(cursor)
            /\ UNCHANGED <<cookies, exc, ff_pc>>
       ELSE IF FfConvertRaises(Head(cursor))
       THEN /\ exc' = "ValueError"
            /\ ff_pc' = "finally"
            /\ UNCHANGED <<cursor, cookies>>
       ELSE /\ cookies' = Append(cookies, FirefoxCookie(Head(cursor)))
            /\ cursor' = Tail(cursor)
            /\ UNCHANGED <<exc, ff_pc>>
    /\ UNCHANGED <<tmpfiles, tmp_created, xc_pc, ff_caller, netscape, notCookies>>

\* Line 86: conn.close() after the last row.
FfClose ==
    /\ ff_pc = "rows"
    /\ cursor = <<>>
    /\ ff_pc' = "finally"
    /\ UNCHANGED <<tmpfiles, tmp_created, xc_pc, ff_caller, cursor, cookies, exc, netscape, notCookies>>

\* Lines 87-89: the finally clause, then the return (to the caller, or to line 118
\* of firefox_cookie_jar) or the re-raise.
FfFinally ==
    /\ ff_pc = "finally"
    /\ tmpfiles' = tmpfiles \ {"ff_db"}
    /\ ff_pc' = IF exc # "" THEN "raised"
                ELSE IF ff_caller = "jar" THEN "export" ELSE "returned"
    /\ UNCHANGED <<tmp_created, xc_pc, ff_caller, cursor, cookies, exc, netscape, notCookies>>

\* cookies_to_netscape_file (lines 92-109), called at line 118 before the try block:
\* mkstemp, then the header and one line per cookie; a write may raise.
FjExport ==
    /\ ff_pc = "export"
    /\ tmpfiles' = tmpfiles \cup {"ff_cookies"}
    /\ tmp_created' = tmp_created \cup {"ff_cookies"}
    /\ \E written \in 0..Len(cookies), write_fails \in BOOLEAN :
          /\ write_fails \/ written = Len(cookies)
          /\ netscape' = [k \in 1..written |-> NetscapeLine(cookies[k])]
          /\ exc' = IF write_fails THEN "OSError" ELSE ""
          /\ ff_pc' = IF write_fails THEN "raised" ELSE "yielded"
    /\ UNCHANGED <<xc_pc, ff_caller, cursor, cookies, notCookies>>

\* Line 120: the body of the caller's with block runs and ends or raises.
FjBody ==
    /\ ff_pc = "yielded"
    /\ \E body_raises \in BOOLEAN : exc' = IF body_raises THEN "BodyError" ELSE ""
    /\ ff_pc' = "jar_finally"
    /\ UNCHANGED <<tmpfiles, tmp_created, xc_pc, ff_caller, cursor, cookies, netscape, notCookies>>

\* Lines 121-122: the finally clause of firefox_cookie_jar.
FjFinally ==
    /\ ff_pc = "jar_finally"
    /\ tmpfiles' = tmpfiles \ {"ff_cookies"}
    /\ ff_pc' = IF exc = "" THEN "closed" ELSE "raised"
    /\ UNCHANGED <<tmp_created, xc_pc, ff_caller, cursor, cookies, exc, netscape, notCookies>>

NextCookies ==
    \/ XcEnter \/ XcCopy \/ XcQuery \/ XcRow \/ XcClose \/ XcFinally
    \/ FfCallLoad \/ FjEnter \/ FfCopyDb \/ FfQuery \/ FfRow \/ FfClose \/ FfFinally
    \/ FjExport \/ FjBody \/ FjFinally

SpecCookies == InitCookies /\ [][NextCookies]_vars

\* A call into the bridge has returned or raised.
XcOver == xc_pc \in {"returned", "raised"}

FfLoadOver == ff_pc \in {"returned", "raised", "export", "yielded", "jar_finally", "closed"}

FjOver == ff_caller = "jar" /\ ff_pc \in {"closed", "raised"}

\* C3: once extract_x_cookies or load_firefox_cookies has returned or raised, the
\* temporary copy of the cookie database it created no longer exists.
C3_TempCopyDeleted ==
    /\ XcOver => "x_db" \notin tmpfiles
    /\ FfLoadOver => "ff_db" \notin tmpfiles

\* C4: once the firefox_cookie_jar context has been left, by the normal end of the
\* body or by an exception, the exported cookie file no longer exists.
C4_ExportedFileDeleted == FjOver => "ff_cookies" \notin tmpfiles


-----------------------------------------------------------------------------
(* enrich_note.main                                                          *)

MaxNote == 3

V1 == <<"v","1">>

V2 == <<"v","2">>

\* The words a note is made of: two urls of the same video, a url of another
\* video, the urls of two posts, and a word that is no url.
NoteWords ==
    { YtWord(<<"y","o","u","t","u",".","b","e","/","v","1">>, V1),
      YtWord(<<"y","t",".","c","o","m","/","w","a","t","c","h","?","v","=","v","1">>, V1),
      YtWord(<<"y","o","u","t","u",".","b","e","/","v","2">>, V2),
      XWord(<<"x",".","c","o","m","/","a","/","s","t","a","t","u","s","/","7">>, <<"7">>),
      XWord(<<"x",".","c","o","m","/","b","/","s","t","a","t","u","s","/","8">>, <<"8">>),
      TextWord(<<"s","e","e">>) }

\* args.yt_template: the default "yt-{video_id}.md", or "{title_slug}{nope}.md".
DefaultYtTemplate == <<Lit(<<"y","t","-">>), Field("video_id"), Lit(<<".","m","d">>)>>

SlugYtTemplate == <<Field("title_slug"), Field("nope"), Lit(<<".","m","d">>)>>

\* args.x_template, at its default "x-{post_id}.md".
XTemplate == <<Lit(<<"x","-">>), Field("post_id"), Lit(<<".","m","d">>)>>

\* The title the metadata backend reports for a video.
VideoTitle(video_id) == IF video_id = V1 THEN <<" ","H","i"," ","T","!">> ELSE <<>>

\* What the backend and the network can answer when a video is fetched: the
\* metadata query raises; no track for the language; a manual track that downloads;
\* an automatic track whose download fails.
VideoAnswers(video_id) ==
    { [NoInfo EXCEPT !.extract = "raise"],
      [NoInfo EXCEPT !.title = VideoTitle(video_id), !.subtitles = NoListForLang,
                     !.automatic_captions = TrackList(<<>>)],
      [NoInfo EXCEPT !.title = VideoTitle(video_id),
                     !.subtitles = TrackList(<<UrlEntry("m0"), UrlEntry("m1")>>),
                     !.payload = SamplePayload],
      [NoInfo EXCEPT !.title = VideoTitle(video_id),
                     !.automatic_captions = TrackList(<<UrlEntry("a1")>>),
                     !.http = "fail"] }

\* A fresh result entry (lines 158 and 192).
NewEntry(pair) ==
    [url |-> pair.url, id |-> pair.id, status |-> "unset", error |-> "",
     output_path |-> <<>>, assigned |-> 0]

\* entry["status"] = "error"; entry["error"] = str(exc) (lines 164-165)
WithError(entry, msg) ==
    [entry EXCEPT !.status = "error", !.error = msg, !.assigned = @ + 1]

\* entry["status"] = "ok"; entry["output_path"] = str(out_file) (lines 174-175, 199-200)
WithOk(entry, out_file) ==
    [entry EXCEPT !.status = "ok", !.output_path = out_file, !.assigned = @ + 1]

SetLast(seq, e) == [seq EXCEPT ![Len(seq)] = e]

Last(seq) == seq[Len(seq)]

\* A variant of write_text that keeps the content of a file that already exists.
WriteText_KeepExisting(fs, path, content) ==
    IF path \in DOMAIN fs THEN fs
    ELSE [q \in DOMAIN fs \cup {path} |-> IF q = path THEN content ELSE fs[q]]

\* out_file.write_text(content): the file holds exactly the content written last.
WriteText(fs, path, content) ==
    [q \in DOMAIN fs \cup {path} |-> IF q = path THEN content ELSE fs[q]]

InitMain ==
    /\ yt_template \in {DefaultYtTemplate, SlugYtTemplate}
    /\ pc = "start"
    /\ exit_code = -1
    /\ fault = ""
    /\ yt_pairs = <<>>
    /\ x_pairs = <<>>
    /\ yt_i = 1
    /\ x_i = 1
    /\ report_youtube = <<>>
    /\ report_x = <<>>
    /\ title = <<>>
    /\ text = <<>>
    /\ files = NoFiles
    /\ writes = <<>>
    /\ playwright = "none"
    /\ browser = "none"
    /\ navigations = <<>>
    /\ emitted = FALSE
    /\ yt_snapshot = [report |-> <<>>, files |-> NoFiles]
    /\ raw = <<>>
    /\ StripIdle
    /\ FetchIdle
    /\ ScrapeIdle
    /\ CookiesIdle

\* The run ends: sys.exit(code), or an exception nothing catches (status 1).
Ends(how, code, why) ==
    /\ pc' = how
    /\ exit_code' = code
    /\ fault' = why

\* Lines 127-144: the note must exist; its text is read and the urls are extracted
\* once; no url, no work.
Start ==
    /\ pc = "start"
    /\ \/ Ends("exited", 1, "NoteNotFound") /\ UNCHANGED <<yt_pairs, x_pairs>>
       \/ \E content \in SeqsUpTo(NoteWords, MaxNote) :
             /\ yt_pairs' = extract_urls(content).yt_pairs
             /\ x_pairs' = extract_urls(content).x_pairs
             /\ IF extract_urls(content).yt_pairs = <<>> /\ extract_urls(content).x_pairs = <<>>
                THEN Ends("exited", 0, "NoUrls")
                ELSE pc' = "cookie_ctx" /\ UNCHANGED <<exit_code, fault>>
    /\ UNCHANGED <<yt_template, yt_i, x_i, report_youtube, report_x, title, text, files,
                   writes, playwright, browser, navigations, emitted, yt_snapshot, notMain>>

\* Lines 146-156: without --yt-use-firefox-cookies the with block is entered on
\* nullcontext(None); with it, the cookie context is built (FileNotFoundError exits
\* with status 1) and entered (an exception of the cookie jar ends the run).
CookieCtx ==
    /\ pc = "cookie_ctx"
    /\ \E yt_use_firefox_cookies \in BOOLEAN :
          \/ pc' = "yt_loop" /\ UNCHANGED <<exit_code, fault>>
          \/ yt_use_firefox_cookies /\ Ends("exited", 1, "FileNotFoundError")
          \/ yt_use_firefox_cookies /\ Ends("aborted", 1, "CookieJarError")
    /\ UNCHANGED <<yt_template, yt_pairs, x_pairs, yt_i, x_i, report_youtube, report_x,
                   title, text, files, writes, playwright, browser, navigations, emitted,
                   yt_snapshot, notMain>>

\* Lines 157-160: the next video match gets its entry.
YtBegin ==
    /\ pc = "yt_loop"
    /\ yt_i <= Len(yt_pairs)
    /\ report_youtube' = Append(report_youtube, NewEntry(yt_pairs[yt_i]))
    /\ pc' = "yt_fetch"
    /\ UNCHANGED <<yt_template, exit_code, fault, yt_pairs,
                   x_pairs, yt_i, x_i, report_x, title, text, files, writes,
                   playwright, browser, navigations, emitted, yt_snapshot, notMain>>

\* A variant without the try block of lines 161-167: what the fetch raises
\* leaves the loop.
YtFetch_Propagates ==
    /\ pc = "yt_fetch"
    /\ \E answer \in VideoAnswers(yt_pairs[yt_i].id) :
          LET r == fetch_subtitle_text(answer)
          IN  IF r.raised
              THEN /\ Ends("aborted", 1, r.error)
                   /\ UNCHANGED <<title, text>>
              ELSE /\ title' = r.title
                   /\ text' = r.text
                   /\ pc' = "yt_write"
                   /\ UNCHANGED <<exit_code, fault>>
    /\ UNCHANGED <<yt_template, yt_pairs, x_pairs, yt_i, x_i, report_youtube, report_x,
                   files, writes, playwright, browser, navigations, emitted,
                   yt_snapshot, notMain>>

\* Lines 161-167: fetch_subtitle_text returns, or raises and the item is recorded
\* as an error and the loop continues.
YtFetch ==
    /\ pc = "yt_fetch"
    /\ \E answer \in VideoAnswers(yt_pairs[yt_i].id) :
          LET r == fetch_subtitle_text(answer)
          IN  IF r.raised
              THEN /\ report_youtube' = SetLast(report_youtube, WithError(Last(report_youtube), r.error))
                   /\ yt_i' = yt_i + 1
                   /\ pc' = "yt_loop"
                   /\ UNCHANGED <<title, text>>
              ELSE /\ title' = r.title
                   /\ text' = r.text
                   /\ pc' = "yt_write"
                   /\ UNCHANGED <<report_youtube, yt_i>>
    /\ UNCHANGED <<yt_template, exit_code, fault, yt_pairs,
                   x_pairs, x_i, report_x, files, writes,
                   playwright, browser, navigations, emitted, yt_snapshot, notMain>>

\* Lines 168-176: the artifact is written and the item recorded ok; a write that
\* raises leaves the with block and ends the run.
YtWrite ==
    /\ pc = "yt_write"
    /\ LET out_file == youtube_path(yt_template, yt_pairs[yt_i].id, title)
           content  == YtContent(title, yt_pairs[yt_i].url, text)
       IN  \/ /\ files' = WriteText(files, out_file, content)
              /\ writes' = Append(writes, [path |-> out_file, content |-> content])
              /\ report_youtube' = SetLast(report_youtube, WithOk(Last(report_youtube), out_file))
              /\ yt_i' = yt_i + 1
              /\ pc' = "yt_loop"
              /\ UNCHANGED <<exit_code, fault>>
           \/ /\ Ends("aborted", 1, "OSError")
              /\ UNCHANGED <<files, writes, report_youtube, yt_i>>
    /\ UNCHANGED <<yt_template, yt_pairs, x_pairs, x_i,
                   report_x, title, text, playwright, browser, navigations, emitted,
                   yt_snapshot, notMain>>

\* A variant of the end of the video loop that may leave it before the last match.
YtExit_Early ==
    /\ pc = "yt_loop"
    /\ yt_snapshot' = [report |-> report_youtube, files |-> files]
    /\ pc' = "x_branch"
    /\ UNCHANGED <<yt_template, exit_code, fault, yt_pairs,
                   x_pairs, yt_i, x_i, report_youtube, report_x, title, text, files, writes,
                   playwright, browser, navigations, emitted, notMain>>

\* The loop over yt_pairs is exhausted and the with block is left.
YtExit ==
    /\ pc = "yt_loop"
    /\ yt_i > Len(yt_pairs)
    /\ yt_snapshot' = [report |-> report_youtube, files |-> files]
    /\ pc' = "x_branch"
    /\ UNCHANGED <<yt_template, exit_code, fault, yt_pairs,
                   x_pairs, yt_i, x_i, report_youtube, report_x, title, text, files, writes,
                   playwright, browser, navigations, emitted, notMain>>


\* Line 179: the post branch is entered only when a post url was found.
XBranch ==
    /\ pc = "x_branch"
    /\ pc' = IF x_pairs # <<>> THEN "find_profile" ELSE "report"
    /\ UNCHANGED <<yt_template, exit_code, fault, yt_pairs,
                   x_pairs, yt_i, x_i, report_youtube, report_x, title, text, files, writes,
                   playwright, browser, navigations, emitted, yt_snapshot,
                   notMain>>

\* Lines 180-181: open_x.find_firefox_profile returns a profile or exits the process.
FindProfile ==
    /\ pc = "find_profile"
    /\ \E fs \in ProfileDirs :
          IF open_x_find_firefox_profile(fs).exits
          THEN Ends("exited", 1, "ProfileNotFound")
          ELSE pc' = "x_cookies" /\ UNCHANGED <<exit_code, fault>>
    /\ UNCHANGED <<yt_template, yt_pairs, x_pairs, yt_i, x_i,
                   report_youtube, report_x, title, text, files, writes,
                   playwright, browser, navigations, emitted, yt_snapshot, notMain>>

\* How a call of extract_x_cookies ends: it returns, or raises what its steps raise.
ExtractXCookiesOutcomes ==
    {"returned", "FileNotFoundError", "OSError", "DatabaseError", "TypeError"}

\* A variant in which a fault of extract_x_cookies abandons the post branch only
\* and control passes to the report.
XCookies_BranchOnly ==
    /\ pc = "x_cookies"
    /\ \E outcome \in ExtractXCookiesOutcomes :
          IF outcome = "returned"
          THEN pc' = "launch" /\ UNCHANGED <<exit_code, fault>>
          ELSE /\ pc' = "report"
               /\ fault' = IF outcome = "FileNotFoundError" THEN "StoreMissing" ELSE outcome
               /\ UNCHANGED exit_code
    /\ UNCHANGED <<yt_template, yt_pairs, x_pairs, yt_i, x_i,
                   report_youtube, report_x, title, text, files, writes,
                   playwright, browser, navigations, emitted, yt_snapshot, notMain>>

\* Lines 182-183: extract_x_cookies returns the cookies, or raises and nothing
\* catches it (FileNotFoundError when the profile holds no cookies.sqlite).
XCookies ==
    /\ pc = "x_cookies"
    /\ \E outcome \in ExtractXCookiesOutcomes :
          IF outcome = "returned"
          THEN pc' = "launch" /\ UNCHANGED <<exit_code, fault>>
          ELSE Ends("aborted", 1,
                    IF outcome = "FileNotFoundError" THEN "StoreMissing" ELSE outcome)
    /\ UNCHANGED <<yt_template, yt_pairs, x_pairs, yt_i, x_i,
                   report_youtube, report_x, title, text, files, writes,
                   playwright, browser, navigations, emitted, yt_snapshot, notMain>>

\* Lines 185-189: the playwright context is entered and the browser launched.
Launch ==
    /\ pc = "launch"
    /\ \/ /\ playwright' = "running"
          /\ browser' = "open"
          /\ pc' = "x_loop"
          /\ UNCHANGED <<exit_code, fault>>
       \/ /\ playwright' = "stopped"
          /\ browser' = browser
          /\ Ends("aborted", 1, "LaunchError")
    /\ UNCHANGED <<yt_template, yt_pairs, x_pairs, yt_i, x_i,
                   report_youtube, report_x, title, text, files, writes,
                   navigations, emitted, yt_snapshot, notMain>>

\* Lines 191-194: the next post match gets its entry.
XBegin ==
    /\ pc = "x_loop"
    /\ x_i <= Len(x_pairs)
    /\ report_x' = Append(report_x, NewEntry(x_pairs[x_i]))
    /\ pc' = "x_scrape"
    /\ UNCHANGED <<yt_template, exit_code, fault, yt_pairs,
                   x_pairs, yt_i, x_i, report_youtube, title, text, files, writes,
                   playwright, browser, navigations, emitted, yt_snapshot,
                   notMain>>

\* Line 195: scrape_post returns text, or raises; nothing catches it, the
\* playwright context is left and line 203 is not reached.
XScrape ==
    /\ pc = "x_scrape"
    /\ navigations' = Append(navigations, x_pairs[x_i].url)
    /\ \E pg \in PageBehaviours :
          LET r == scrape_post(pg)
          IN  IF r.raised
              THEN /\ Ends("aborted", 1, "NavigationError")
                   /\ playwright' = "stopped"
                   /\ UNCHANGED text
              ELSE /\ text' = r.text
                   /\ pc' = "x_write"
                   /\ UNCHANGED <<exit_code, fault, playwright>>
    /\ UNCHANGED <<yt_template, yt_pairs, x_pairs, yt_i, x_i,
                   report_youtube, report_x, title, files, writes, browser,
                   emitted, yt_snapshot, notMain>>

\* Lines 196-201: the artifact is written and the item recorded ok; a write that
\* raises ends the run like a scrape that raises.
XWrite ==
    /\ pc = "x_write"
    /\ LET out_file == x_path(XTemplate, x_pairs[x_i].id)
           content  == XContent(x_pairs[x_i].url, text)
       IN  \/ /\ files' = WriteText(files, out_file, content)
              /\ writes' = Append(writes, [path |-> out_file, content |-> content])
              /\ report_x' = SetLast(report_x, WithOk(Last(report_x), out_file))
              /\ x_i' = x_i + 1
              /\ pc' = "x_loop"
              /\ UNCHANGED <<exit_code, fault, playwright>>
           \/ /\ Ends("aborted", 1, "OSError")
              /\ playwright' = "stopped"
              /\ UNCHANGED <<files, writes, report_x, x_i>>
    /\ UNCHANGED <<yt_template, yt_pairs, x_pairs, yt_i,
                   report_youtube, title, text, browser, navigations,
                   emitted, yt_snapshot, notMain>>

\* Line 203 and the end of the with block: browser.close().
XExit ==
    /\ pc = "x_loop"
    /\ x_i > Len(x_pairs)
    /\ browser' = "closed"
    /\ playwright' = "stopped"
    /\ pc' = "report"
    /\ UNCHANGED <<yt_template, exit_code, fault, yt_pairs,
                   x_pairs, yt_i, x_i, report_youtube, report_x, title, text, files, writes,
                   navigations, emitted, yt_snapshot, notMain>>

\* Lines 205-206: the report is printed when asked for, and main returns.
Report ==
    /\ pc = "report"
    /\ emitted' = TRUE
    /\ Ends("done", 0, "")
    /\ UNCHANGED <<yt_template, yt_pairs, x_pairs, yt_i, x_i,
                   report_youtube, report_x, title, text, files, writes,
                   playwright, browser, navigations, yt_snapshot, notMain>>

Init == InitMain

Next ==
    \/ Start \/ CookieCtx \/ YtBegin \/ YtFetch \/ YtWrite \/ YtExit
    \/ XBranch \/ FindProfile \/ XCookies \/ Launch \/ XBegin \/ XScrape \/ XWrite
    \/ XExit \/ Report

Spec == Init /\ [][Next]_vars


-----------------------------------------------------------------------------
(* Properties of enrich_note.main                                            *)

Terminated == pc \in {"done", "exited", "aborted"}

\* Where control is once the loop over the video matches has been left normally.
AfterVideoLoop ==
    {"x_branch", "find_profile", "x_cookies", "launch", "x_loop", "x_scrape",
     "x_write", "report", "done"}

FetchErrors == {ErrExtract, ErrNoSubtitles, ErrHttp}

OkCount(report) == Cardinality({k \in 1..Len(report) : report[k].status = "ok"})

\* The position, among the writes of the video loop, of the write of entry k.
OkRank(k) == Cardinality({j \in 1..k : report_youtube[j].status = "ok"})

\* C1: in the video loop a fetch that raises is recorded on its own entry with
\* status error and the message of the exception, no file is written for that
\* entry, the exception does not leave the loop, and the loop is only left once
\* every video match, the later ones included, has been fetched and recorded ok
\* (with its file written) or error.
C1_FetchFailureIsolated ==
    /\ Len(report_youtube) <= Len(yt_pairs)
    /\ \A k \in 1..Len(report_youtube) :
          /\ report_youtube[k].url = yt_pairs[k].url
          /\ report_youtube[k].id = yt_pairs[k].id
          /\ k < yt_i => report_youtube[k].status \in {"ok", "error"}
          /\ report_youtube[k].status = "error" =>
                /\ report_youtube[k].error \in FetchErrors
                /\ report_youtube[k].output_path = <<>>
          /\ report_youtube[k].status = "ok" =>
                /\ OkRank(k) <= Len(writes)
                /\ writes[OkRank(k)].path = report_youtube[k].output_path
                /\ report_youtube[k].output_path \in DOMAIN files
    /\ Len(writes) = OkCount(report_youtube) + OkCount(report_x)
    /\ fault \notin FetchErrors
    /\ pc \in AfterVideoLoop =>
          /\ yt_i = Len(yt_pairs) + 1
          /\ Len(report_youtube) = Len(yt_pairs)

\* A finished run in which a video match whose fetch raised is followed by a video
\* match that was fetched, written and recorded ok.
C1_Witness ==
    /\ pc = "done"
    /\ \E j, k \in 1..Len(report_youtube) :
          /\ j < k
          /\ report_youtube[j].status = "error"
          /\ report_youtube[j].error = ErrNoSubtitles
          /\ report_youtube[k].status = "ok"
          /\ report_youtube[k].output_path \in DOMAIN files

\* What the steps of extract_x_cookies raise is among the outcomes main draws from.
XcOutcomesAgree ==
    /\ xc_pc = "raised" => exc \in ExtractXCookiesOutcomes \ {"returned"}
    /\ xc_pc = "returned" => exc = ""

SetupFaults == {"ProfileNotFound", "StoreMissing"}

\* C6 as stated: a ProfileNotFound or StoreMissing fault opens no browser and
\* processes no post, leaves the video results and files as they were, and the
\* rest of the run goes on: control passes to the report.
C6_Original ==
    fault \in SetupFaults =>
        /\ browser = "none"
        /\ report_x = <<>>
        /\ navigations = <<>>
        /\ report_youtube = yt_snapshot.report
        /\ files = yt_snapshot.files
        /\ pc \in {"report", "done"}

\* C6 (amended): a ProfileNotFound or StoreMissing fault opens no browser and
\* processes and records no post, and leaves the results and files of the video
\* loop as they were; it ends the whole run with status 1, and the report step
\* is not reached.
C6_SetupFaultEndsRun ==
    fault \in SetupFaults =>
        /\ browser = "none"
        /\ playwright = "none"
        /\ report_x = <<>>
        /\ navigations = <<>>
        /\ report_youtube = yt_snapshot.report
        /\ files = yt_snapshot.files
        /\ pc \in {"exited", "aborted"}
        /\ exit_code = 1
        /\ ~emitted

\* The cookie store is missing after the video loop has written a file.
C6_Witness ==
    /\ fault = "StoreMissing"
    /\ pc = "aborted"
    /\ \E k \in 1..Len(report_youtube) :
          /\ report_youtube[k].status = "ok"
          /\ report_youtube[k].output_path \in DOMAIN files

\* C7: every entry added to a report has its status assigned exactly once, to ok
\* or error, on every path by which the run ends, and the status is never assigned
\* again.
C7_FinalizedExactlyOnce ==
    /\ \A k \in 1..Len(report_youtube) : report_youtube[k].assigned <= 1
    /\ \A k \in 1..Len(report_x) : report_x[k].assigned <= 1
    /\ Terminated =>
          /\ \A k \in 1..Len(report_youtube) :
                report_youtube[k].assigned = 1 /\ report_youtube[k].status \in {"ok", "error"}
          /\ \A k \in 1..Len(report_x) :
                report_x[k].assigned = 1 /\ report_x[k].status \in {"ok", "error"}

\* The video matches a note can hold.
VideoMatches == {Pair(w) : w \in {n \in NoteWords : n.kind = "yt"}}

\* What fetch_subtitle_text returns for a video whose fetch succeeds.
FetchedOk(video_id) ==
    fetch_subtitle_text(CHOOSE a \in VideoAnswers(video_id) : ~fetch_subtitle_text(a).raised)

\* The file content enrich_note writes for a match whose fetch succeeded.
ExpectedContent ==
    [m \in VideoMatches |-> YtContent(FetchedOk(m.id).title, m.url, FetchedOk(m.id).text)]

ExpectedYt(entry) == ExpectedContent[[url |-> entry.url, id |-> entry.id]]

\* C8: matches are not deduplicated and the last write wins: two video matches
\* with the same id are two entries in discovery order, each recorded ok has its
\* own write, both writes go to the same path, and the file holds the content of
\* the later item only.
C8_LastWriteWins ==
    /\ \A k \in 1..Len(report_youtube) :
          /\ report_youtube[k].url = yt_pairs[k].url
          /\ report_youtube[k].status = "ok" =>
                /\ OkRank(k) <= Len(writes)
                /\ writes[OkRank(k)].content = ExpectedYt(report_youtube[k])
    /\ \A j, k \in 1..Len(report_youtube) :
          (j < k /\ report_youtube[j].id = report_youtube[k].id
                 /\ report_youtube[j].status = "ok" /\ report_youtube[k].status = "ok") =>
              /\ report_youtube[j].output_path = report_youtube[k].output_path
              /\ OkRank(j) < OkRank(k)
              /\ writes[OkRank(j)].path = writes[OkRank(k)].path
              /\ (\A l \in (k+1)..Len(report_youtube) :
                     ~(report_youtube[l].status = "ok"
                       /\ report_youtube[l].output_path = report_youtube[k].output_path))
                    => files[report_youtube[k].output_path] = ExpectedYt(report_youtube[k])

\* A finished run with two matches of one video under different urls, both written:
\* the file holds the content of the second and not that of the first.
C8_Witness ==
    /\ pc = "done"
    /\ \E j, k \in 1..Len(report_youtube) :
          /\ j < k
          /\ report_youtube[j].id = report_youtube[k].id
          /\ report_youtube[j].url # report_youtube[k].url
          /\ report_youtube[j].status = "ok"
          /\ report_youtube[k].status = "ok"
          /\ files[report_youtube[k].output_path] = ExpectedYt(report_youtube[k])
          /\ files[report_youtube[k].output_path] # ExpectedYt(report_youtube[j])


\* The entries of a report whose status is not assigned yet.
Unset(report) == {k \in 1..Len(report) : report[k].status = "unset"}

\* The post branch has begun work on an item or on the browser.
PostWorkBegun == report_x # <<>> \/ navigations # <<>> \/ browser # "none"

\* The state part of the order of a run.
SequentialOrder ==
    /\ pc = "start" =>
          /\ report_youtube = <<>> /\ report_x = <<>>
          /\ navigations = <<>> /\ writes = <<>> /\ browser = "none"
    /\ Len(report_youtube) <= Len(yt_pairs)
    /\ Len(report_x) <= Len(x_pairs)
    /\ \A k \in 1..Len(report_youtube) :
          report_youtube[k].url = yt_pairs[k].url /\ report_youtube[k].id = yt_pairs[k].id
    /\ \A k \in 1..Len(report_x) :
          report_x[k].url = x_pairs[k].url /\ report_x[k].id = x_pairs[k].id
    /\ Len(navigations) <= Len(report_x)
    /\ \A k \in 1..Len(navigations) : navigations[k] = x_pairs[k].url
    /\ PostWorkBegun =>
          /\ yt_i = Len(yt_pairs) + 1
          /\ Len(report_youtube) = Len(yt_pairs)
          /\ Unset(report_youtube) = {}
    /\ Unset(report_youtube) \subseteq {Len(report_youtube)}
    /\ Unset(report_x) \subseteq {Len(report_x)}
    /\ Cardinality(Unset(report_youtube) \cup Unset(report_x)) <= 1
    /\ Len(report_youtube) \in {yt_i - 1, yt_i}
    /\ Len(report_x) \in {x_i - 1, x_i}

\* C11: a run is strictly sequential. The urls are discovered once, before any
\* item is processed, and the two lists never change afterwards; the video items
\* are taken in discovery order, one entry per match; the post items and the
\* browser navigations, also in discovery order, begin only once every video item
\* is finished; and at most one item is in progress at any time.
C11_SequentialOrder ==
    /\ []SequentialOrder
    /\ [][pc # "start" => UNCHANGED <<yt_pairs, x_pairs>>]_vars

\* A finished run that processed two video items and then a post item.
C11_Witness ==
    /\ pc = "done"
    /\ Len(report_youtube) = 2
    /\ Len(report_x) = 1
    /\ navigations = <<x_pairs[1].url>>


\* s with every element equal to its predecessor in s removed
RunCompress(s) ==
    LET keep == {i \in 1..Len(s) : i = 1 \/ s[i] # s[i - 1]}
        nth(k) == CHOOSE i \in keep : Cardinality({j \in keep : j < i}) = k - 1
    IN  [k \in 1..Cardinality(keep) |-> nth(k)]

\* C9: at every point of the loop and at the return, the kept lines are non-empty,
\* no two adjacent kept lines are equal, and the kept lines are exactly the
\* normalised non-empty lines seen so far with each run of equal consecutive
\* entries reduced to its first: N consecutive lines that normalise to the same
\* text contribute one occurrence.
C9_ConsecutiveDuplicatesSuppressed ==
    /\ \A i \in 1..Len(lines) : lines[i] # <<>>
    /\ \A i \in 1..(Len(lines) - 1) : lines[i] # lines[i + 1]
    /\ Len(lines) = Len(RunCompress(strip_seen))
    /\ \A k \in 1..Len(lines) : lines[k] = strip_seen[RunCompress(strip_seen)[k]]
    /\ lines # <<>> => last_text_line = lines[Len(lines)]
    /\ strip_pc = "returned" => strip_result = Strip(JoinSpace(lines))

\* A finished call in which a run of equal normalised lines was reduced and a later,
\* different line was kept after it.
C9_Witness ==
    /\ strip_pc = "returned"
    /\ Len(lines) >= 2
    /\ \E i \in 1..(Len(strip_seen) - 1) : strip_seen[i] = strip_seen[i + 1]
    /\ Len(strip_seen) > Len(lines)

\* The per-language lists of the call in progress.
ManualList == LangTracks(info, "subtitles")

AutoList == LangTracks(info, "automatic_captions")

\* The loop over the two fields has ended.
SelectionDone ==
    \/ fetch_pc \in {"check", "download", "returned"}
    \/ fetch_pc = "raised" /\ fetch_result.error # ErrExtract

\* The list is non-empty and its last entry is a dict that carries a url.
Usable(l) == l # <<>> /\ l[Len(l)].kind = "url"

\* C10 as stated: whenever the manual list for the language is non-empty, the
\* selected track is the last entry of that list, and never an automatic track.
C10_Original ==
    SelectionDone /\ ManualList # <<>> =>
        /\ selected_field # "automatic_captions"
        /\ subtitle_url \in {NoUrl, ManualList[Len(ManualList)].url}

\* C10 (amended): the selected track is the last entry of the manual list when
\* that list is non-empty and its last entry carries a url; otherwise the last
\* entry of the automatic list under the same condition; otherwise nothing is
\* selected. The call fails with the no-subtitles error exactly when nothing is
\* selected or the selected url is empty. An automatic track is selected only
\* when the manual list is empty or its last entry carries no url.
C10_TrackSelection ==
    /\ SelectionDone =>
          /\ Usable(ManualList) =>
                /\ selected_field = "subtitles"
                /\ subtitle_url = ManualList[Len(ManualList)].url
          /\ ~Usable(ManualList) /\ Usable(AutoList) =>
                /\ selected_field = "automatic_captions"
                /\ subtitle_url = AutoList[Len(AutoList)].url
          /\ ~Usable(ManualList) /\ ~Usable(AutoList) =>
                /\ selected_field = NoField
                /\ subtitle_url = NoUrl
    /\ fetch_pc \in {"download", "returned"} => ~NoSubtitleUrl(subtitle_url)
    /\ fetch_pc = "raised" /\ fetch_result.error = ErrNoSubtitles =>
          NoSubtitleUrl(subtitle_url)
    /\ fetch_pc = "raised" /\ fetch_result.error = ErrHttp => ~NoSubtitleUrl(subtitle_url)
    /\ fetch_pc \in {"returned", "raised"} => fetch_result = fetch_subtitle_text(info)

\* A call that returned text from the last of several automatic tracks although the
\* manual list for the language was not empty.
C10_Witness ==
    /\ fetch_pc = "returned"
    /\ ManualList # <<>>
    /\ selected_field = "automatic_captions"
    /\ Len(AutoList) >= 2
    /\ AutoList[1] # AutoList[Len(AutoList)]

====
